---------------------------- MODULE Spec2Model ----------------------------
(***************************************************************************)
(* Model of src/io_uring.rs: the io_uring bootstrap layer.                 *)
(*                                                                         *)
(* The process side is IoUring::init and IoUring::queue_mmap, stepped at   *)
(* system-call granularity; the kernel side is the environment: it answers *)
(* io_uring_setup, mmap, munmap and close, and it advances the indices it  *)
(* owns in the shared rings.                                               *)
(***************************************************************************)
EXTENDS Integers, Sequences, FiniteSets, TLC

(***************************************************************************)
(* Bounds of the model.                                                    *)
(***************************************************************************)
MaxDepth == 3          \* requested depths are 0..MaxDepth
NumBases == 4          \* candidate base addresses the kernel may hand out
MaxIdx   == 1          \* the kernel advances each index it owns up to MaxIdx

(***************************************************************************)
(* Program constants.                                                      *)
(***************************************************************************)
IORING_OFF_SQ_RING == 0
IORING_OFF_CQ_RING == 134217728        \* 0x8000000
\* Mutant: the entries array mapped at the offset of the CQ ring.
IORING_OFF_SQES_as_cq == IORING_OFF_CQ_RING
IORING_OFF_SQES    == 268435456        \* 0x10000000
NSIG_              == 65
MAP_FAILED         == -1
NULL               == 0
SIZEOF_SIGSET_T    == 128              \* userspace sigset_t, not what is passed
PAGE_SIZE          == 4 * 1024
BaseStride         == 16 * PAGE_SIZE

Max(a, b) == IF a >= b THEN a ELSE b

AlignUp(n, a) == ((n + a - 1) \div a) * a

(***************************************************************************)
(* Kernel ABI layer: #[repr(C)] layout.  A type is [size, align]; a struct *)
(* places each field at the next multiple of its alignment and is padded   *)
(* at the end to its own alignment; a union is as large as its largest     *)
(* member, rounded to its alignment.                                       *)
(***************************************************************************)
Ty(s, a) == [size |-> s, align |-> a]

u8  == Ty(1, 1)
u16 == Ty(2, 2)
u32 == Ty(4, 4)
i32 == Ty(4, 4)
u64 == Ty(8, 8)
KernelRwf == i32

ArrayOf(t, n) == Ty(t.size * n, t.align)

RECURSIVE MaxAlign(_)
MaxAlign(fields) ==
    IF fields = << >> THEN 1
    ELSE Max(Head(fields).align, MaxAlign(Tail(fields)))

RECURSIVE MaxSize(_)
MaxSize(fields) ==
    IF fields = << >> THEN 0
    ELSE Max(Head(fields).size, MaxSize(Tail(fields)))

RECURSIVE SumSize(_)
SumSize(fields) ==
    IF fields = << >> THEN 0
    ELSE Head(fields).size + SumSize(Tail(fields))

\* End offset of the last of `fields` when laid out from offset 0.
RECURSIVE EndOf(_)
EndOf(fields) ==
    IF fields = << >> THEN 0
    ELSE LET n    == Len(fields)
             last == fields[n]
         IN  AlignUp(EndOf(SubSeq(fields, 1, n - 1)), last.align) + last.size

\* Offset of field i of a repr(C) struct.
OffsetOf(fields, i) == AlignUp(EndOf(SubSeq(fields, 1, i - 1)), fields[i].align)

StructOf(fields) == Ty(AlignUp(EndOf(fields), MaxAlign(fields)), MaxAlign(fields))

UnionOf(members) == Ty(AlignUp(MaxSize(members), MaxAlign(members)), MaxAlign(members))

\* Bytes of a struct that belong to no field.
PaddingOf(fields) == StructOf(fields).size - SumSize(fields)

io_uring_sqe_arg_members == << KernelRwf, u32, u16, u32 >>
io_uring_sqe_arg == UnionOf(io_uring_sqe_arg_members)

io_uring_sqe_idx_members == << u16, ArrayOf(u64, 3) >>
io_uring_sqe_idx == UnionOf(io_uring_sqe_idx_members)

\* Mutant: `fd` declared before `ioprio`, which pads the entry.
io_uring_sqe_fields_reordered ==
    << u8, u8, i32, u16, u64, u64, u32, io_uring_sqe_arg, u64, io_uring_sqe_idx >>
io_uring_sqe_fields ==
    << u8, u8, u16, i32, u64, u64, u32, io_uring_sqe_arg, u64, io_uring_sqe_idx >>
io_uring_sqe == StructOf(io_uring_sqe_fields)

io_uring_cqe_fields == << u64, i32, u32 >>
io_uring_cqe == StructOf(io_uring_cqe_fields)

io_sqring_offsets_fields == << u32, u32, u32, u32, u32, u32, u32, u32, u64 >>
io_sqring_offsets == StructOf(io_sqring_offsets_fields)

io_cqring_offsets_fields == << u32, u32, u32, u32, u32, u32, ArrayOf(u64, 2) >>
io_cqring_offsets == StructOf(io_cqring_offsets_fields)

io_uring_params_fields ==
    << u32, u32, u32, u32, u32, ArrayOf(u32, 5), io_sqring_offsets, io_cqring_offsets >>
io_uring_params == StructOf(io_uring_params_fields)

(***************************************************************************)
(* State.                                                                  *)
(***************************************************************************)
VARIABLES
    pc,        \* position of the constructing thread
    nentries,  \* argument of IoUring::init
    fds,       \* descriptor table of the process: the open descriptors
    maps,      \* memory map of the process: the mapped regions
    fds0,      \* descriptor table when init was called
    maps0,     \* memory map when init was called
    errno,     \* the thread's errno
    params,    \* init's `params` block
    kring,     \* the kernel's ring object: the contents of the shared rings
    ret,       \* init's `ret`: the IoUring being built
    loc,       \* locals of queue_mmap
    qm,        \* what queue_mmap returned to init
    result,    \* what init returned to its caller
    calls,     \* the system calls issued so far, in order
    enterArgs  \* arguments of the last io_uring_enter system call

vars == << pc, nentries, fds, maps, fds0, maps0, errno, params, kring, ret, loc,
           qm, result, calls, enterArgs >>

None == [kind |-> "None"]
Ok(v) == [kind |-> "Ok", val |-> v]
Err(e) == [kind |-> "Err", os_error |-> e]

Depths == 0 .. MaxDepth
Bases  == { i * BaseStride : i \in 1 .. NumBases }
StdFds == {0, 1, 2}

\* struct SQ / struct CQ, and std::mem::zeroed() of each
ZeroSQ ==
    [khead |-> NULL, ktail |-> NULL, kring_mask |-> NULL, kring_entries |-> NULL,
     kflags |-> NULL, kdropped |-> NULL, array |-> NULL, sqes |-> NULL,
     sqe_head |-> 0, sqe_tail |-> 0, ring_sz |-> 0, ring_ptr |-> NULL]

ZeroCQ ==
    [khead |-> NULL, ktail |-> NULL, kring_mask |-> NULL, kring_entries |-> NULL,
     overflow |-> NULL, cqes |-> NULL, ring_sz |-> 0, ring_ptr |-> NULL]

ZeroSqOff ==
    [head |-> 0, tail |-> 0, ring_mask |-> 0, ring_entries |-> 0, flags |-> 0,
     dropped |-> 0, array |-> 0]

ZeroCqOff ==
    [head |-> 0, tail |-> 0, ring_mask |-> 0, ring_entries |-> 0, overflow |-> 0,
     cqes |-> 0]

\* io_uring_params after std::mem::zeroed()
ZeroParams ==
    [sq_entries |-> 0, cq_entries |-> 0, sq_off |-> ZeroSqOff, cq_off |-> ZeroCqOff]

NoRing == [fd |-> -1, sq_head |-> 0, sq_tail |-> 0, cq_head |-> 0, cq_tail |-> 0,
           sq_ring_entries |-> 0]

ZeroLoc == [sq_ring_sz |-> 0, sq_ring_ptr |-> NULL, sqes_size |-> 0, sqes_ptr |-> NULL,
            cq_ring_sz |-> 0, cq_ring_ptr |-> NULL]

NoEnter == [called |-> FALSE]

(***************************************************************************)
(* The kernel's side of the system calls.                                  *)
(***************************************************************************)
\* Offset tables the kernel may report (two ring geometries).
KernelGeometries ==
    { [sq_off |-> [head |-> 0, tail |-> 64, ring_mask |-> 256, ring_entries |-> 264,
                   flags |-> 276, dropped |-> 272, array |-> 320],
       cq_off |-> [head |-> 128, tail |-> 192, ring_mask |-> 260, ring_entries |-> 268,
                   overflow |-> 284, cqes |-> 320]],
      [sq_off |-> [head |-> 0, tail |-> 4, ring_mask |-> 8, ring_entries |-> 12,
                   flags |-> 16, dropped |-> 20, array |-> 64],
       cq_off |-> [head |-> 32, tail |-> 36, ring_mask |-> 40, ring_entries |-> 44,
                   overflow |-> 48, cqes |-> 128]] }

RECURSIVE RoundUpPow2From(_, _)
RoundUpPow2From(n, p) == IF p >= n THEN p ELSE RoundUpPow2From(n, 2 * p)

\* The kernel rounds the requested depth up to a power of two.
RoundUpPow2(n) == RoundUpPow2From(n, 1)

LowestFreeFd == CHOOSE f \in 0 .. Cardinality(fds) : f \notin fds /\ \A g \in 0 .. f - 1 : g \in fds

SetupErrnos == {"ENOMEM", "EMFILE"}

\* libc::syscall(SYS_io_uring_setup, entries, params): the possible replies.
\* A depth of zero is rejected; any other request may be granted or denied.
\* A granted ring reports the actual depths and offset tables in `p`, and
\* holds the depth again in the ring-entry-count field of the SQ ring.
SysSetup(entries) ==
    LET denied == { [r |-> -1, errno |-> e, p |-> ZeroParams, kring |-> NoRing] :
                    e \in IF entries = 0 THEN {"EINVAL"} ELSE SetupErrnos }
        granted ==
            { [r |-> LowestFreeFd,
               errno |-> errno,
               p |-> [sq_entries |-> RoundUpPow2(entries),
                      cq_entries |-> 2 * RoundUpPow2(entries),
                      sq_off |-> g.sq_off, cq_off |-> g.cq_off],
               kring |-> [fd |-> LowestFreeFd, sq_head |-> 0, sq_tail |-> 0,
                          cq_head |-> 0, cq_tail |-> 0, sq_ring_entries |-> k]] :
              g \in KernelGeometries,
              k \in {RoundUpPow2(entries), 2 * RoundUpPow2(entries)} }
    IN  IF entries = 0 THEN denied ELSE denied \cup granted

RegionEnd(r) == r.base + AlignUp(r.len, PAGE_SIZE)

MmapErrnos == {"ENOMEM", "EAGAIN"}

\* libc::mmap(NULL, len, PROT_READ|PROT_WRITE, MAP_SHARED|MAP_POPULATE, fd, off)
\* on memory map m: the possible replies.
SysMmap(m, len, fd, off) ==
    LET free   == { b \in Bases : \A r \in m : r.base # b }
        denied == { [ptr |-> MAP_FAILED, errno |-> e, maps |-> m] :
                    e \in IF len = 0 THEN {"EINVAL"}
                          ELSE IF fd \notin fds THEN {"EBADF"} ELSE MmapErrnos }
        granted == { [ptr |-> b, errno |-> errno,
                      maps |-> m \cup {[base |-> b, len |-> len, fd |-> fd, off |-> off]}] :
                     b \in free }
    IN  IF len = 0 \/ fd \notin fds THEN denied ELSE denied \cup granted

\* libc::munmap(addr, len) on memory map m with errno e: the reply.  Every page
\* of [addr, addr + len) is unmapped; a range that holds no mapping is not an
\* error; an unaligned address or a zero length is.
SysMunmap(m, e, addr, len) ==
    IF addr % PAGE_SIZE # 0 \/ len = 0
    THEN [r |-> -1, errno |-> "EINVAL", maps |-> m]
    ELSE [r |-> 0, errno |-> e,
          maps |-> { r \in m : ~(addr <= r.base /\ RegionEnd(r) <= addr + AlignUp(len, PAGE_SIZE)) }]

\* libc::munmap(addr, len) when the kernel may also refuse a valid request for
\* lack of memory: the possible replies.  A refused munmap unmaps nothing.
SysMunmapOrDenied(m, e, addr, len) ==
    {SysMunmap(m, e, addr, len), [r |-> -1, errno |-> "ENOMEM", maps |-> m]}

\* libc::close(fd) on descriptor table t with errno e: the reply.
SysClose(t, e, fd) ==
    IF fd \in t THEN [r |-> 0, errno |-> e, fds |-> t \ {fd}]
    ELSE [r |-> -1, errno |-> "EBADF", fds |-> t]

\* The region that holds address a, if any.
RegionsAt(a) == { r \in maps : r.base <= a /\ a < r.base + r.len }

\* The values a read of the u32 at address a may yield: the kernel's word when
\* a lies in the mapped SQ ring (only the words the code reads are modelled),
\* anything when a is not mapped.
ReadU32(a) ==
    IF RegionsAt(a) = {} THEN 0 .. 2 * RoundUpPow2(MaxDepth)
    ELSE LET r == CHOOSE x \in RegionsAt(a) : TRUE
             o == a - r.base
         IN  IF r.off = IORING_OFF_SQ_RING /\ r.fd = kring.fd
             THEN IF o = params.sq_off.ring_entries THEN {kring.sq_ring_entries}
                  ELSE IF o = params.sq_off.head THEN {kring.sq_head}
                  ELSE IF o = params.sq_off.tail THEN {kring.sq_tail}
                  ELSE {0}
             ELSE {0}

\* One system call of the log: its name, arguments, return value, and errno after it.
Call(name, args, r, e) == [name |-> name, args |-> args, r |-> r, errno |-> e]

(***************************************************************************)
(* Initial state: the process before it calls IoUring::init.  It may       *)
(* already hold a descriptor and a mapping of its own.                     *)
(***************************************************************************)
PriorRegion == [base |-> BaseStride, len |-> PAGE_SIZE, fd |-> -1, off |-> 0]

Init ==
    /\ pc = "start"
    /\ nentries = 0
    /\ fds \in {StdFds, StdFds \cup {3}}
    /\ maps \in {{}, {PriorRegion}}
    /\ fds0 = fds
    /\ maps0 = maps
    /\ errno = "0"
    /\ params = ZeroParams
    /\ kring = NoRing
    /\ ret = [fd |-> -1, sq |-> ZeroSQ, cq |-> ZeroCQ]
    /\ loc = ZeroLoc
    /\ qm = None
    /\ result = None
    /\ calls = << >>
    /\ enterArgs = NoEnter

(***************************************************************************)
(* The system-call gateway.                                                *)
(***************************************************************************)
\* c_int::try_from(ret).unwrap_or(-1)
c_int_try_from_or(r, dflt) == IF -2147483647 - 1 <= r /\ r <= 2147483647 THEN r ELSE dflt

\* io_uring_enter: `let sigset_size: c_uint = NSIG_ / 8`
\* Mutant: size_of::<libc::sigset_t>() instead.
sigset_size_userspace == SIZEOF_SIGSET_T
sigset_size == NSIG_ \div 8

EnterFds     == {ret.fd}
EnterCounts  == {0, 1}
EnterFlags   == {0, 1}
EnterSigsets == {NULL, BaseStride}

\* The argument list io_uring_enter hands to libc::syscall.
io_uring_enter_args(fd, to_submit, min_complete, flags, sigset) ==
    [called |-> TRUE, fd |-> fd, to_submit |-> to_submit, min_complete |-> min_complete,
     flags |-> flags, sigset |-> sigset, sigset_size |-> sigset_size]

\* unsafe fn io_uring_enter(fd, to_submit, min_complete, flags, sigset).  Nothing
\* in the file calls it; its caller is whoever holds a handle the construction
\* of which succeeded.
IoUringEnter ==
    /\ pc = "returned"
    /\ result.kind = "Ok"
    /\ qm.kind = "Ok"
    /\ \E fd \in EnterFds, to_submit \in EnterCounts, min_complete \in EnterCounts,
          flags \in EnterFlags, sigset \in EnterSigsets :
          enterArgs' = io_uring_enter_args(fd, to_submit, min_complete, flags, sigset)
    /\ UNCHANGED << pc, nentries, fds, maps, fds0, maps0, errno, params, kring, ret, loc,
                    qm, result, calls >>

(***************************************************************************)
(* IoUring::init, first part: io_uring_setup and the zeroed handle.        *)
(***************************************************************************)
InitSetup ==
    /\ pc = "start"
    /\ \E n \in Depths : \E o \in SysSetup(n) :
         LET fd == c_int_try_from_or(o.r, -1)
         IN  /\ nentries' = n
             /\ calls' = Append(calls, Call("io_uring_setup", << n >>, o.r, o.errno))
             /\ errno' = o.errno
             /\ params' = o.p
             /\ kring' = o.kring
             /\ IF fd < 0
                THEN /\ result' = Err(o.errno)
                     /\ pc' = "returned"
                     /\ UNCHANGED << fds, ret >>
                ELSE /\ fds' = fds \cup {fd}
                     /\ ret' = [fd |-> fd, sq |-> ZeroSQ, cq |-> ZeroCQ]
                     /\ result' = result
                     /\ pc' = "mmap_sq_ring"
    /\ UNCHANGED << maps, fds0, maps0, loc, qm, enterArgs >>

(***************************************************************************)
(* IoUring::queue_mmap.                                                    *)
(***************************************************************************)
ptr_off(p, off) == p + off

size_of_u32 == u32.size

\* Mutant: the depth asked of init instead of the depth the kernel reported.
sq_ring_sz_requested(p) == p.sq_off.array + nentries * size_of_u32
sq_ring_sz(p) == p.sq_off.array + p.sq_entries * size_of_u32

sqes_size(p) == p.sq_entries * io_uring_sqe.size

cq_ring_sz(p) == p.cq_off.cqes + p.cq_entries * io_uring_cqe.size

\* mmap the submission queue structure
QueueMmapSqRing ==
    /\ pc = "mmap_sq_ring"
    /\ \E o \in SysMmap(maps, sq_ring_sz(params), ret.fd, IORING_OFF_SQ_RING) :
         /\ calls' = Append(calls, Call("mmap", << sq_ring_sz(params), ret.fd, IORING_OFF_SQ_RING >>, o.ptr, o.errno))
         /\ maps' = o.maps
         /\ errno' = o.errno
         /\ IF o.ptr = MAP_FAILED
            THEN /\ qm' = Err(o.errno)
                 /\ pc' = "qm_returned"
                 /\ UNCHANGED loc
            ELSE /\ loc' = [loc EXCEPT !.sq_ring_sz = sq_ring_sz(params), !.sq_ring_ptr = o.ptr]
                 /\ pc' = "mmap_sqes"
                 /\ UNCHANGED qm
    /\ UNCHANGED << nentries, fds, fds0, maps0, params, kring, ret, result, enterArgs >>

\* mmap the submission queue entries array
QueueMmapSqes ==
    /\ pc = "mmap_sqes"
    /\ \E o \in SysMmap(maps, sqes_size(params), ret.fd, IORING_OFF_SQES) :
         /\ calls' = Append(calls, Call("mmap", << sqes_size(params), ret.fd, IORING_OFF_SQES >>, o.ptr, o.errno))
         /\ maps' = o.maps
         /\ errno' = o.errno
         /\ loc' = [loc EXCEPT !.sqes_size = sqes_size(params), !.sqes_ptr = o.ptr]
         /\ pc' = IF o.ptr = MAP_FAILED THEN "sqes_failed" ELSE "init_sq"
    /\ UNCHANGED << nentries, fds, fds0, maps0, params, kring, ret, qm, result, enterArgs >>

\* Mutant: the pointer of the failed mmap is unmapped instead of the SQ ring.
SqesFailUnmaps_failed_ptr == << << loc.sqes_ptr, loc.sqes_size >> >>
\* The regions queue_mmap unmaps when the mmap of the entries array failed.
SqesFailUnmaps == << << loc.sq_ring_ptr, loc.sq_ring_sz >> >>

\* sqp == MAP_FAILED: munmap(sq_ring_ptr, sq_ring_sz); return Err(last_os_error())
\* o is the reply of the munmap.
QueueMmapSqesFailedOn(u, o) ==
    /\ calls' = Append(calls, Call("munmap", u, o.r, o.errno))
    /\ maps' = o.maps
    /\ errno' = o.errno
    /\ qm' = Err(o.errno)
    /\ pc' = "qm_returned"
    /\ UNCHANGED << nentries, fds, fds0, maps0, params, kring, ret, loc, result, enterArgs >>

QueueMmapSqesFailed ==
    /\ pc = "sqes_failed"
    /\ LET u == SqesFailUnmaps[1]
       IN  QueueMmapSqesFailedOn(u, SysMunmap(maps, errno, u[1], u[2]))

\* Mutant: kflags and kdropped resolved with each other's offset.
NewSQ_flags_dropped_swapped(ptr, off, sqes_ptr, sz) ==
    [khead         |-> ptr + off.head,
     ktail         |-> ptr + off.tail,
     kring_mask    |-> ptr + off.ring_mask,
     kring_entries |-> ptr + off.ring_entries,
     kflags        |-> ptr + off.dropped,
     kdropped      |-> ptr + off.flags,
     array         |-> ptr + off.array,
     sqes          |-> sqes_ptr,
     sqe_head      |-> 0,
     sqe_tail      |-> 0,
     ring_sz       |-> sz,
     ring_ptr      |-> ptr]
\* The SQ the pointers of which are resolved against the SQ ring mapping.
NewSQ(ptr, off, sqes_ptr, sz) ==
    [khead         |-> ptr_off(ptr, off.head),
     ktail         |-> ptr_off(ptr, off.tail),
     kring_mask    |-> ptr_off(ptr, off.ring_mask),
     kring_entries |-> ptr_off(ptr, off.ring_entries),
     kflags        |-> ptr_off(ptr, off.flags),
     kdropped      |-> ptr_off(ptr, off.dropped),
     array         |-> ptr_off(ptr, off.array),
     sqes          |-> sqes_ptr,
     sqe_head      |-> 0,
     sqe_tail      |-> 0,
     ring_sz       |-> sz,
     ring_ptr      |-> ptr]

\* Mutant: the assertion is left out.
AssertEqPasses_unchecked(left, right) == TRUE
\* assert_eq!(p.sq_entries, *sq.kring_entries): whether the assertion passes
AssertEqPasses(left, right) == left = right

\* Mutant: the SQ head index is zeroed through sq.khead when SQ is initialised.
QueueMmapStores_zero_khead(k) == [k EXCEPT !.sq_head = 0]
\* The shared ring words after the stores queue_mmap makes through its pointers
\* into the rings: it makes none (its one dereference, of sq.kring_entries, is a
\* read), so the words are as the kernel left them.
QueueMmapStores(k) == k

\* initialize the SQ structure, then assert_eq!(p.sq_entries, *sq.kring_entries)
QueueMmapInitSQ ==
    /\ pc = "init_sq"
    /\ LET sq == NewSQ(loc.sq_ring_ptr, params.sq_off, loc.sqes_ptr, loc.sq_ring_sz)
       IN  /\ ret' = [ret EXCEPT !.sq = sq]
           /\ \E v \in ReadU32(sq.kring_entries) :
                pc' = IF AssertEqPasses(params.sq_entries, v) THEN "mmap_cq_ring" ELSE "panicking"
    /\ kring' = QueueMmapStores(kring)
    /\ UNCHANGED << nentries, fds, maps, fds0, maps0, errno, params, loc, qm,
                    result, calls, enterArgs >>

\* The panic of assert_eq! unwinds queue_mmap and init.  Unwinding drops `ret`;
\* IoUring, SQ and CQ have no Drop and hold integers and raw pointers only, so
\* nothing is released.
PanicUnwind ==
    /\ pc = "panicking"
    /\ pc' = "panicked"
    /\ UNCHANGED << nentries, fds, maps, fds0, maps0, errno, params, kring, ret, loc, qm,
                    result, calls, enterArgs >>

\* mmap the completion queue; on success initialize the CQ structure and return Ok(())
NewCQ(ptr, off, sz) ==
    [khead         |-> ptr_off(ptr, off.head),
     ktail         |-> ptr_off(ptr, off.tail),
     kring_mask    |-> ptr_off(ptr, off.ring_mask),
     kring_entries |-> ptr_off(ptr, off.ring_entries),
     overflow      |-> ptr_off(ptr, off.overflow),
     cqes          |-> ptr_off(ptr, off.cqes),
     ring_sz       |-> sz,
     ring_ptr      |-> ptr]

QueueMmapCqRing ==
    /\ pc = "mmap_cq_ring"
    /\ \E o \in SysMmap(maps, cq_ring_sz(params), ret.fd, IORING_OFF_CQ_RING) :
         /\ calls' = Append(calls, Call("mmap", << cq_ring_sz(params), ret.fd, IORING_OFF_CQ_RING >>, o.ptr, o.errno))
         /\ maps' = o.maps
         /\ errno' = o.errno
         /\ loc' = [loc EXCEPT !.cq_ring_sz = cq_ring_sz(params), !.cq_ring_ptr = o.ptr]
         /\ IF o.ptr = MAP_FAILED
            THEN /\ pc' = "cq_failed"
                 /\ UNCHANGED << ret, qm >>
            ELSE /\ ret' = [ret EXCEPT !.cq = NewCQ(o.ptr, params.cq_off, cq_ring_sz(params))]
                 /\ qm' = Ok("unit")
                 /\ pc' = "qm_returned"
    /\ UNCHANGED << nentries, fds, fds0, maps0, params, kring, result, enterArgs >>

\* Mutant: the SQ ring is unmapped twice and the entries array never.
CqFailUnmaps_sq_twice ==
    << << loc.sq_ring_ptr, loc.sq_ring_sz >>, << loc.sq_ring_ptr, loc.sq_ring_sz >> >>
\* The regions queue_mmap unmaps, in order, when the mmap of the CQ ring failed.
CqFailUnmaps ==
    << << loc.sq_ring_ptr, loc.sq_ring_sz >>, << loc.sqes_ptr, loc.sqes_size >> >>

\* ptr == MAP_FAILED: munmap(sq_ring_ptr, sq_ring_sz) ...
QueueMmapCqFailedOn(u, o) ==
    /\ calls' = Append(calls, Call("munmap", u, o.r, o.errno))
    /\ maps' = o.maps
    /\ errno' = o.errno
    /\ pc' = "cq_failed_2"
    /\ UNCHANGED << nentries, fds, fds0, maps0, params, kring, ret, loc, qm, result, enterArgs >>

QueueMmapCqFailed ==
    /\ pc = "cq_failed"
    /\ LET u == CqFailUnmaps[1]
       IN  QueueMmapCqFailedOn(u, SysMunmap(maps, errno, u[1], u[2]))

\* ... munmap(sqes_ptr, sqes_size); return Err(last_os_error())
QueueMmapCqFailed2On(u, o) ==
    /\ calls' = Append(calls, Call("munmap", u, o.r, o.errno))
    /\ maps' = o.maps
    /\ errno' = o.errno
    /\ qm' = Err(o.errno)
    /\ pc' = "qm_returned"
    /\ UNCHANGED << nentries, fds, fds0, maps0, params, kring, ret, loc, result, enterArgs >>

QueueMmapCqFailed2 ==
    /\ pc = "cq_failed_2"
    /\ LET u == CqFailUnmaps[2]
       IN  QueueMmapCqFailed2On(u, SysMunmap(maps, errno, u[1], u[2]))

(***************************************************************************)
(* IoUring::init, second part.                                             *)
(***************************************************************************)
\* What init returns once queue_mmap returned `err`.
InitReturnValue(err, handle) == Ok(handle)

\* let err = ret.queue_mmap(&mut params);
\* if err.is_err() { close(ret.fd) }
\* Ok(ret)
InitFinish ==
    /\ pc = "qm_returned"
    /\ IF qm.kind = "Err"
       THEN LET o == SysClose(fds, errno, ret.fd)
            IN  /\ calls' = Append(calls, Call("close", << ret.fd >>, o.r, o.errno))
                /\ fds' = o.fds
                /\ errno' = o.errno
       ELSE UNCHANGED << calls, fds, errno >>
    /\ result' = InitReturnValue(qm, ret)
    /\ pc' = "returned"
    /\ UNCHANGED << nentries, maps, fds0, maps0, params, kring, ret, loc, qm, enterArgs >>

\* What the end of the handle's lifetime releases: the drop glue of IoUring.
\* No Drop is implemented for IoUring, SQ or CQ, and their fields are integers
\* and raw pointers: nothing is unmapped and nothing is closed.
DropReleases(handle) == << >>

\* The caller lets the IoUring that init returned go out of scope.
DropHandle ==
    /\ pc = "returned"
    /\ result.kind = "Ok"
    /\ DropReleases(result.val) = << >>
    /\ pc' = "dropped"
    /\ UNCHANGED << nentries, fds, maps, fds0, maps0, errno, params, kring, ret, loc, qm,
                    result, calls, enterArgs >>

(***************************************************************************)
(* The kernel, running concurrently: it advances the indices it owns, the  *)
(* SQ head and the CQ tail, while the ring exists.                         *)
(***************************************************************************)
RingExists == kring.fd \in fds \/ \E r \in maps : r.fd = kring.fd

KernelAdvance ==
    /\ kring.fd >= 0
    /\ RingExists
    /\ \/ /\ kring.sq_head < MaxIdx
          /\ kring' = [kring EXCEPT !.sq_head = @ + 1]
       \/ /\ kring.cq_tail < MaxIdx
          /\ kring' = [kring EXCEPT !.cq_tail = @ + 1]
    /\ UNCHANGED << pc, nentries, fds, maps, fds0, maps0, errno, params, ret, loc, qm,
                    result, calls, enterArgs >>

Next ==
    \/ InitSetup
    \/ QueueMmapSqRing
    \/ QueueMmapSqes
    \/ QueueMmapSqesFailed
    \/ QueueMmapInitSQ
    \/ PanicUnwind
    \/ QueueMmapCqRing
    \/ QueueMmapCqFailed
    \/ QueueMmapCqFailed2
    \/ InitFinish
    \/ DropHandle
    \/ IoUringEnter
    \/ KernelAdvance

Spec == Init /\ [][Next]_vars

(***************************************************************************)
(* The same program against a kernel that may refuse a munmap.  Spec takes *)
(* munmap to honour every valid request; this specification is for the     *)
(* properties that speak of a rollback munmap failing.                     *)
(***************************************************************************)
QueueMmapSqesFailedDenied ==
    /\ pc = "sqes_failed"
    /\ LET u == SqesFailUnmaps[1]
       IN  \E o \in SysMunmapOrDenied(maps, errno, u[1], u[2]) : QueueMmapSqesFailedOn(u, o)

QueueMmapCqFailedDenied ==
    /\ pc = "cq_failed"
    /\ LET u == CqFailUnmaps[1]
       IN  \E o \in SysMunmapOrDenied(maps, errno, u[1], u[2]) : QueueMmapCqFailedOn(u, o)

QueueMmapCqFailed2Denied ==
    /\ pc = "cq_failed_2"
    /\ LET u == CqFailUnmaps[2]
       IN  \E o \in SysMunmapOrDenied(maps, errno, u[1], u[2]) : QueueMmapCqFailed2On(u, o)

NextMunmapMayFail ==
    \/ InitSetup
    \/ QueueMmapSqRing
    \/ QueueMmapSqes
    \/ QueueMmapSqesFailedDenied
    \/ QueueMmapInitSQ
    \/ PanicUnwind
    \/ QueueMmapCqRing
    \/ QueueMmapCqFailedDenied
    \/ QueueMmapCqFailed2Denied
    \/ InitFinish
    \/ DropHandle
    \/ IoUringEnter
    \/ KernelAdvance

SpecMunmapMayFail == Init /\ [][NextMunmapMayFail]_vars

(***************************************************************************)
(* Vocabulary of the properties.                                           *)
(***************************************************************************)
CallIdx(name) == { i \in DOMAIN calls : calls[i].name = name }

MmapIdx == CallIdx("mmap")

\* The mmap calls that returned a mapping / that returned MAP_FAILED.
MmapOk     == { i \in MmapIdx : calls[i].r # -1 }
MmapFailed == { i \in MmapIdx : calls[i].r = -1 }

SetupFailed == Len(calls) >= 1 /\ calls[1].name = "io_uring_setup" /\ calls[1].r < 0

\* The regions mapped against descriptor fd at file offset off.
RegionsOf(fd, off) == { r \in maps : r.fd = fd /\ r.off = off }

\* The handle h owns an open descriptor of this call and three live mappings.
HandleLive(h) ==
    /\ h.fd \in fds \ fds0
    /\ RegionsOf(h.fd, 0) # {}
    /\ RegionsOf(h.fd, 268435456) # {}
    /\ RegionsOf(h.fd, 134217728) # {}

\* The process holds what it held when init was called, and nothing else.
NothingHeld == fds = fds0 /\ maps = maps0

InitReturned == pc = "returned" /\ result.kind # "None"

(***************************************************************************)
(* C1.  Whatever the outcomes of the ring-creation call and of the three   *)
(* mmap calls, init returns either Ok(handle) with the descriptor open and *)
(* all three regions mapped, or Err with nothing held; when queue_mmap     *)
(* failed, init returns an Err.                                            *)
(***************************************************************************)
C1_InitAllOrNothing ==
    InitReturned =>
        /\ \/ result.kind = "Ok" /\ HandleLive(result.val)
           \/ result.kind = "Err" /\ NothingHeld
        /\ qm.kind = "Err" => result.kind = "Err"

(***************************************************************************)
(* C2.  When init returns after the ring-creation call or one of the three *)
(* mmap calls failed, the open descriptors and the mapped regions of the   *)
(* process are those it had before the call.                               *)
(***************************************************************************)
C2_FailedInitHoldsNothing ==
    (InitReturned /\ (SetupFailed \/ MmapFailed # {})) => NothingHeld

\* init has returned after the third mmap failed, in a process that had a
\* mapping and a descriptor of its own before.
C2_Witness ==
    /\ InitReturned
    /\ Cardinality(MmapIdx) = 3
    /\ MmapFailed # {}
    /\ maps0 # {}
    /\ 3 \in fds0

(***************************************************************************)
(* C3.  Once queue_mmap has returned an error, the munmap calls it made    *)
(* are exactly one per region its earlier mmap calls mapped, each with the *)
(* base address that mmap returned and the length that mmap was given,     *)
(* each succeeded, and none of those regions is mapped any more: the SQ    *)
(* ring after a failed SQE mmap, the SQ ring and the SQE array after a     *)
(* failed CQ mmap.                                                         *)
(***************************************************************************)
C3_RollbackUnmapsWhatWasMapped ==
    qm.kind = "Err" =>
        LET mapped   == { << calls[i].r, calls[i].args[1] >> : i \in MmapOk }
            unmapped == { calls[i].args : i \in CallIdx("munmap") }
        IN  /\ unmapped = mapped
            /\ Cardinality(CallIdx("munmap")) = Cardinality(MmapOk)
            /\ \A i \in CallIdx("munmap") : calls[i].r = 0
            /\ \A i \in MmapOk : \A r \in maps : r.base # calls[i].r
            /\ maps = maps0

\* queue_mmap has returned an error after the CQ mmap failed and two regions
\* were unmapped.
C3_Witness ==
    /\ pc = "qm_returned"
    /\ qm.kind = "Err"
    /\ Cardinality(MmapOk) = 2
    /\ Cardinality(CallIdx("munmap")) = 2

(***************************************************************************)
(* C4.  When the lifetime of a successfully constructed handle ends, its   *)
(* three regions are unmapped and its descriptor is closed: the last four  *)
(* calls are munmap of the CQ ring, of the SQE array, of the SQ ring, and  *)
(* close, and nothing of the handle remains.                               *)
(***************************************************************************)
C4_DropReleasesEverything ==
    (pc = "dropped" /\ qm.kind = "Ok") =>
        /\ NothingHeld
        /\ Len(calls) >= 8
        /\ LET n == Len(calls)
           IN  /\ calls[n - 3].name = "munmap" /\ calls[n - 3].args[1] = loc.cq_ring_ptr
               /\ calls[n - 2].name = "munmap" /\ calls[n - 2].args[1] = loc.sqes_ptr
               /\ calls[n - 1].name = "munmap" /\ calls[n - 1].args[1] = loc.sq_ring_ptr
               /\ calls[n].name = "close" /\ calls[n].args[1] = ret.fd

(***************************************************************************)
(* C5.  The length of every mmap call is recomputed from the parameters    *)
(* block alone: sq_off.array + sq_entries * 4 for the SQ ring,             *)
(* sq_entries * 64 for the SQE array, cq_off.cqes + cq_entries * 16 for    *)
(* the CQ ring; the depth asked of init plays no part.                     *)
(***************************************************************************)
C5_MmapLengthsFromParams ==
    \A i \in MmapIdx :
        LET len == calls[i].args[1]
            off == calls[i].args[3]
        IN  /\ off = 0 => len = params.sq_off.array + params.sq_entries * 4
            /\ off = 268435456 => len = params.sq_entries * 64
            /\ off = 134217728 => len = params.cq_off.cqes + params.cq_entries * 16

\* All three regions were mapped for a ring whose depth the kernel rounded up.
C5_Witness ==
    /\ Cardinality(MmapOk) = 3
    /\ params.sq_entries # nentries

(***************************************************************************)
(* C6.  Every handle init returns as built has sq_entries equal to the     *)
(* value read through its kring_entries pointer into the mapped SQ ring;   *)
(* with the two different, the CQ ring is never mapped and no handle is    *)
(* returned.                                                               *)
(***************************************************************************)
C6_ReturnedHandleDepthAgrees ==
    /\ (InitReturned /\ result.kind = "Ok") =>
          /\ RegionsAt(result.val.sq.kring_entries) # {}
          /\ \A v \in ReadU32(result.val.sq.kring_entries) : v = params.sq_entries
    /\ (kring.fd >= 0 /\ kring.sq_ring_entries # params.sq_entries) =>
          /\ \A i \in MmapIdx : calls[i].args[3] # 134217728
          /\ Cardinality(MmapOk) >= 2 => result.kind # "Ok"

(***************************************************************************)
(* C7.  Every io_uring_enter system call, whatever its other arguments,    *)
(* passes a signal-set size of 65 / 8 = 8 bytes, never the 128 bytes of    *)
(* the userspace sigset_t.                                                 *)
(***************************************************************************)
C7_EnterSigsetSize ==
    enterArgs.called =>
        /\ enterArgs.sigset_size = 65 \div 8
        /\ enterArgs.sigset_size = 8
        /\ enterArgs.sigset_size # 128

\* io_uring_enter was called with a signal mask, to submit and to wait.
C7_Witness ==
    /\ enterArgs.called
    /\ enterArgs.sigset # 0
    /\ enterArgs.to_submit = 1
    /\ enterArgs.min_complete = 1

\* The sizes and paddings of the kernel ABI structures, as C8 states them.
AbiSizes ==
    /\ io_uring_sqe.size = 64
    /\ PaddingOf(io_uring_sqe_fields) = 0
    /\ \A i \in 2 .. Len(io_uring_sqe_fields) :
         OffsetOf(io_uring_sqe_fields, i) = EndOf(SubSeq(io_uring_sqe_fields, 1, i - 1))
    /\ io_uring_cqe.size = 16
    /\ PaddingOf(io_uring_cqe_fields) = 0
    /\ \A i \in 2 .. Len(io_uring_cqe_fields) :
         OffsetOf(io_uring_cqe_fields, i) = EndOf(SubSeq(io_uring_cqe_fields, 1, i - 1))
    /\ io_uring_sqe_arg.size = 4
    /\ io_uring_sqe_arg.size = MaxSize(io_uring_sqe_arg_members)
    /\ io_uring_sqe_idx.size = 24
    /\ io_uring_sqe_idx.size = MaxSize(io_uring_sqe_idx_members)
    /\ io_sqring_offsets.size = 40
    /\ io_cqring_offsets.size = 40
    /\ io_uring_params.size = 120

(***************************************************************************)
(* C8.  Under C layout the submission entry is 64 bytes and the completion *)
(* entry 16 bytes, neither with padding between or after its fields; the   *)
(* opcode-flags union is 4 bytes and the buffer-index union 24 bytes; each *)
(* offset table is 40 bytes and the parameters block 120 bytes; these are  *)
(* the entry sizes the mapper multiplies the depths by.                    *)
(***************************************************************************)
C8_AbiLayout ==
    /\ AbiSizes
    /\ \A i \in MmapIdx :
         /\ calls[i].args[3] = 268435456 => calls[i].args[1] = 64 * params.sq_entries
         /\ calls[i].args[3] = 134217728 =>
               calls[i].args[1] = params.cq_off.cqes + 16 * params.cq_entries

\* The entry sizes were used: the SQE array and the CQ ring were mapped with
\* lengths of 64 and 16 bytes per entry.
C8_Witness ==
    /\ \E i \in MmapOk : calls[i].args[3] = 268435456
                         /\ calls[i].args[1] = 64 * params.sq_entries
    /\ \E i \in MmapOk : calls[i].args[3] = 134217728
                         /\ calls[i].args[1] = params.cq_off.cqes + 16 * params.cq_entries

(***************************************************************************)
(* C9.  The mmap calls are, in order, a prefix of SQ ring (offset 0), SQE  *)
(* array (0x10000000), CQ ring (0x8000000), each attempted only after all  *)
(* earlier ones succeeded.  After a failed SQ ring mmap no further mmap    *)
(* and no munmap is ever made, and queue_mmap returns its error with the   *)
(* descriptor still open.  After a failed ring creation init makes no      *)
(* other call.                                                             *)
(***************************************************************************)
C9_MappingOrder ==
    LET order == << 0, 268435456, 134217728 >>
        sqFailed == Len(calls) >= 2 /\ calls[2].name = "mmap" /\ calls[2].r = -1
    IN  /\ \A i \in MmapIdx :
             /\ i - 1 \in 1 .. 3
             /\ calls[i].args[3] = order[i - 1]
             /\ \A j \in MmapIdx : j < i => calls[j].r # -1
        /\ sqFailed =>
             /\ MmapIdx = {2}
             /\ CallIdx("munmap") = {}
             /\ pc = "qm_returned" =>
                  (Len(calls) = 2 /\ qm.kind = "Err" /\ ret.fd \in fds)
        /\ SetupFailed => Len(calls) = 1

\* queue_mmap has returned the error of a failed SQ ring mmap to init.
C9_Witness ==
    /\ pc = "qm_returned"
    /\ Len(calls) = 2
    /\ calls[2].name = "mmap"
    /\ calls[2].r = -1

(***************************************************************************)
(* C10.  When the depth in the parameters block differs from the depth     *)
(* read through the mapped ring-entry-count field, construction ends with  *)
(* the SQ ring and the SQE array unmapped and the descriptor closed.       *)
(***************************************************************************)
C10_MismatchLeaksNothing ==
    pc = "panicked" => NothingHeld

\* The mmap call that returned base address b.
AcquiredAt(b) == { i \in MmapOk : calls[i].r = b }

(***************************************************************************)
(* C11.  On a failing construction path the releases run in the reverse    *)
(* order of the acquisitions: of two munmap calls the earlier one unmaps   *)
(* the region mapped later (the SQE array before the SQ ring when the CQ   *)
(* mmap failed), and the close of the ring descriptor comes after every    *)
(* munmap, with no region of the descriptor left mapped.                   *)
(***************************************************************************)
C11_ReleaseInReverseOrder ==
    /\ \A i, j \in CallIdx("munmap") :
         i < j => \A a \in AcquiredAt(calls[i].args[1]) :
                    \A b \in AcquiredAt(calls[j].args[1]) : a > b
    /\ \A c \in CallIdx("close") :
         /\ \A m \in CallIdx("munmap") : m < c
         /\ \A r \in maps : r.fd # calls[c].args[1]

(***************************************************************************)
(* C12.  The error queue_mmap returns after a failed mmap carries the      *)
(* errno that mmap set, whether the munmap calls of the rollback succeeded *)
(* or failed.                                                              *)
(***************************************************************************)
C12_ErrCarriesMmapErrno ==
    qm.kind = "Err" => \E i \in MmapFailed : qm.os_error = calls[i].errno

\* The calls that failed: a ring creation or an mmap.
FailedIdx == { i \in DOMAIN calls : calls[i].name = "io_uring_setup" /\ calls[i].r < 0 } \cup MmapFailed

(***************************************************************************)
(* C13.  Within one call of init the ring-creation call and each of the    *)
(* three mmap calls are issued at most once, a failed call is followed by  *)
(* no call of the same name, and when init returns after a failed call it  *)
(* returns the error of that call to its caller.                           *)
(***************************************************************************)
C13_OnceAndReportedOnce ==
    /\ Cardinality(CallIdx("io_uring_setup")) <= 1
    /\ \A i, j \in MmapIdx : calls[i].args[3] = calls[j].args[3] => i = j
    /\ \A i \in FailedIdx : \A j \in DOMAIN calls : j > i => calls[j].name # calls[i].name
    /\ Cardinality(FailedIdx) <= 1
    /\ (InitReturned /\ FailedIdx # {}) =>
          /\ result.kind = "Err"
          /\ \A i \in FailedIdx : result.os_error = calls[i].errno

\* The base address the mmap call at file offset off returned.
MappedBase(off) == CHOOSE b \in Bases : \E i \in MmapOk : calls[i].args[3] = off /\ calls[i].r = b

(***************************************************************************)
(* C14.  After a successful queue_mmap every SQ pointer is the base of the *)
(* SQ ring mapping plus its sq_off offset, every CQ pointer the base of    *)
(* the CQ ring mapping plus its cq_off offset, sqes is the base of the SQE *)
(* mapping, and sqe_head and sqe_tail are zero.                            *)
(***************************************************************************)
C14_PointersResolved ==
    qm.kind = "Ok" =>
        /\ Cardinality(MmapOk) = 3
        /\ LET sqb == MappedBase(0)
               cqb == MappedBase(134217728)
               so  == params.sq_off
               co  == params.cq_off
           IN  /\ ret.sq.khead = sqb + so.head
               /\ ret.sq.ktail = sqb + so.tail
               /\ ret.sq.kring_mask = sqb + so.ring_mask
               /\ ret.sq.kring_entries = sqb + so.ring_entries
               /\ ret.sq.kflags = sqb + so.flags
               /\ ret.sq.kdropped = sqb + so.dropped
               /\ ret.sq.array = sqb + so.array
               /\ ret.sq.sqes = MappedBase(268435456)
               /\ ret.sq.sqe_head = 0
               /\ ret.sq.sqe_tail = 0
               /\ ret.cq.khead = cqb + co.head
               /\ ret.cq.ktail = cqb + co.tail
               /\ ret.cq.kring_mask = cqb + co.ring_mask
               /\ ret.cq.kring_entries = cqb + co.ring_entries
               /\ ret.cq.overflow = cqb + co.overflow
               /\ ret.cq.cqes = cqb + co.cqes

\* queue_mmap succeeded on a ring whose flags word lies after its dropped
\* counter, and whose three mappings were not handed out in address order.
C14_Witness ==
    /\ qm.kind = "Ok"
    /\ params.sq_off.flags > params.sq_off.dropped
    /\ ret.cq.ring_ptr < ret.sq.ring_ptr

(***************************************************************************)
(* C15.  While the ring exists, a step of init or queue_mmap leaves every  *)
(* word of the shared rings as it was, so it writes neither the SQ head    *)
(* nor the CQ tail, which only the kernel advances; and no step at all     *)
(* changes the SQ tail or the CQ head.                                     *)
(***************************************************************************)
C15_ProcessWritesNoSharedIndex ==
    [][ kring.fd >= 0 =>
          /\ pc' # pc => kring' = kring
          /\ kring'.sq_tail = kring.sq_tail
          /\ kring'.cq_head = kring.cq_head ]_vars

\* queue_mmap has succeeded while the kernel advanced the SQ head and the CQ
\* tail during construction.
C15_Witness ==
    /\ pc = "qm_returned"
    /\ qm.kind = "Ok"
    /\ kring.sq_head > 0
    /\ kring.cq_tail > 0

\* The pointers held by handle h.
HandlePointers(h) ==
    { h.sq.khead, h.sq.ktail, h.sq.kring_mask, h.sq.kring_entries, h.sq.kflags,
      h.sq.kdropped, h.sq.array, h.sq.sqes, h.sq.ring_ptr,
      h.cq.khead, h.cq.ktail, h.cq.kring_mask, h.cq.kring_entries, h.cq.overflow,
      h.cq.cqes, h.cq.ring_ptr }

(***************************************************************************)
(* C16.  Every non-null pointer stored in the handle points into a region  *)
(* that is mapped, in particular once queue_mmap has returned an error.    *)
(* (Stated for every state but the one between the two munmap calls of the *)
(* CQ-failure rollback.)                                                   *)
(***************************************************************************)
C16_NoDanglingPointer ==
    pc # "cq_failed_2" =>
        \A p \in HandlePointers(ret) : p # 0 => RegionsAt(p) # {}

LastCall == calls[Len(calls)]

(***************************************************************************)
(* C17.  Every munmap is of a region that is mapped when the call is made, *)
(* with its base and length, and every close is of a descriptor that is    *)
(* open when the call is made: nothing is released twice and nothing that  *)
(* was not acquired is released.                                           *)
(***************************************************************************)
C17_ReleaseOnlyWhatIsHeld ==
    [][ Len(calls') > Len(calls) =>
          LET c == calls'[Len(calls')]
          IN  /\ c.name = "munmap" =>
                   /\ \E r \in maps : r.base = c.args[1] /\ r.len = c.args[2]
                   /\ \E r \in maps \ maps0 : r.base = c.args[1]
                   /\ c.r = 0
              /\ c.name = "close" =>
                   /\ c.args[1] \in fds \ fds0
                   /\ c.r = 0 ]_vars

\* init has returned after a rollback of two munmap calls and a close.
C17_Witness ==
    /\ InitReturned
    /\ Cardinality(CallIdx("munmap")) = 2
    /\ Cardinality(CallIdx("close")) = 1
    /\ LastCall.name = "close"

(***************************************************************************)
(* C18.  After a successful queue_mmap, sq.ring_ptr and sq.ring_sz are the *)
(* base and length of the SQ ring mapping, cq.ring_ptr and cq.ring_sz      *)
(* those of the CQ ring mapping, and the SQE mapping, based at sq.sqes,    *)
(* has the length (value read through sq.kring_entries) * 64.              *)
(***************************************************************************)
C18_HandleRecordsMappings ==
    qm.kind = "Ok" =>
        /\ \E r \in RegionsOf(ret.fd, 0) :
             r.base = ret.sq.ring_ptr /\ r.len = ret.sq.ring_sz
        /\ \E r \in RegionsOf(ret.fd, 134217728) :
             r.base = ret.cq.ring_ptr /\ r.len = ret.cq.ring_sz
        /\ \E r \in RegionsOf(ret.fd, 268435456) :
             /\ r.base = ret.sq.sqes
             /\ \A v \in ReadU32(ret.sq.kring_entries) : r.len = v * 64

\* queue_mmap succeeded for a requested depth of 3 that the kernel made 4.
C18_Witness ==
    /\ qm.kind = "Ok"
    /\ nentries = 3
    /\ kring.sq_ring_entries = 4
    /\ ret.cq.ring_sz > 0

=============================================================================
